---- MODULE Spec2Model ----
(***************************************************************************)
(* Bidirectional keyset pagination of chatbox (chatbox/pagination.py,      *)
(* chatbox/qparams.py, chatbox/fields.py, chatbox/defaults.py).            *)
(*                                                                         *)
(* A list request carries raw query parameters.  The query-parameter       *)
(* serializer validates them, paginate_queryset filters, orders and cuts   *)
(* the feed's rows, and get_paginated_response adds the older and newer    *)
(* links, which a client may follow as its next request.                   *)
(***************************************************************************)
EXTENDS Integers, Sequences, FiniteSets, Bags, TLC

\* ------------------------------------------------------------------ bounds
\* Number of distinct sent_at values a row may carry.
MaxTime == 2
\* Number of distinct message ids.
MaxId == 3
\* Largest small in-range limit a client asks for (1..MaxLimitIn).
MaxLimitIn == 2
\* Number of inserts and deletes that fall into one traversal.
MaxWrites == 2
\* Number of chats.
MaxChat == 2

\* -------------------------------------------------------- program constants
\* A datetime has microsecond resolution; timestamp() is seconds as a float.
USEC == 1000000
MESSAGE_DEFAULT_PAGE_SIZE == 20
MESSAGE_MAX_PAGE_SIZE == 200
CHAT_DEFAULT_PAGE_SIZE == 40
CHAT_MAX_PAGE_SIZE == 200
\* min_value=1 of both limit fields.
LIMIT_MIN_VALUE == 1

\* --------------------------------------------------------------- universes
\* sent_at values, in microseconds since the epoch; they straddle a whole
\* second so that the seconds and the fraction of a timestamp both vary.
Times == {USEC - 2 + i : i \in 1..MaxTime}
\* message_id values (UUIDs as integers); they straddle a hex digit carry.
Ids == {14 + i : i \in 1..MaxId}
Feeds == {"message", "chat"}

\* Python's None, and a value of type datetime.
None == [k |-> "None"]
Datetime(us) == [k |-> "datetime", us |-> us]

\* A row of the feed's queryset, with its two lookup columns: a message with
\* its sent_at and message_id or, in the chat feed, a chat with the sent_at
\* and message_id of the message joined to it.
Row(t, i) == [sent_at |-> t, message_id |-> i]
Rows == {Row(t, i) : t \in Times, i \in Ids}

\* message_id is unique=True: no two rows of a collection share an id.
Collections == {c \in SUBSET Rows : \A x, y \in c : x.message_id = y.message_id => x = y}

\* ------------------------------------------------------------- conversions
\* datetime.timestamp() followed by force_str: the decimal numeral
\* "<whole>.<frac>" of the seconds since the epoch.
Timestamp(dt) == [k |-> "num", whole |-> dt.us \div USEC, frac |-> dt.us % USEC]

\* datetime.fromtimestamp(float(value), tz=UTC) for a numeral.
FromTimestamp(raw) == Datetime(raw.whole * USEC + raw.frac)

\* force_str(uuid): the hex digits of the UUID.
UUIDStr(u) == [k |-> "uuid", hex |-> <<u \div 16, u % 16>>]

\* serializers.UUIDField.to_internal_value for a well-formed UUID string.
ParseUUID(raw) == raw.hex[1] * 16 + raw.hex[2]

\* ------------------------------------------------------------ Python values
\* A dict or an object's attributes: a function whose domain is the keys set.
EmptyDict == <<>>
SetItem(d, key, value) == (key :> value) @@ d
\* dict.get(key, None)
Get(d, key) == IF key \in DOMAIN d THEN d[key] ELSE None
\* hasattr(obj, name)
HasAttr(obj, name) == name \in DOMAIN obj
\* bool(value) for None and for datetime objects (a datetime is always true).
Truthy(value) == value.k # "None"

\* --------------------------------------------------------- raw query params
Absent == [k |-> "absent"]
Junk == [k |-> "junk"]
RawInt(n) == [k |-> "int", v |-> n]

RawReverse == {"absent", "true", "false"}
\* A well-formed numeral, a non-numeric string, or the numeral "inf".
RawOffsetDatetime == {Absent, Junk, [k |-> "inf"]} \cup {Timestamp(Datetime(t)) : t \in Times}
\* A well-formed UUID or another string.
RawOffsetMessageId == {Absent, Junk} \cup {UUIDStr(i) : i \in Ids}
\* An integer (small ones, 0, the maximum and one beyond it) or another string.
RawLimit ==
    {Absent, Junk} \cup {RawInt(n) : n \in 0..MaxLimitIn}
        \cup {RawInt(MESSAGE_MAX_PAGE_SIZE), RawInt(MESSAGE_MAX_PAGE_SIZE + 1)}

\* request.query_params (with the feed the URL path selects).
Requests ==
    [feed : Feeds, reverse : RawReverse, offset_datetime : RawOffsetDatetime,
     offset_message_id : RawOffsetMessageId, limit : RawLimit]

\* --------------------------------------------------- query-params serializer
\* The outcome of one field: skipped (not required, not given), a validated
\* value, a ValidationError, or another exception that escapes the serializer.
Skip == [out |-> "skip"]
Value(v) == [out |-> "value", v |-> v]
Invalid == [out |-> "invalid"]
Raises(exc) == [out |-> "raise", exc |-> exc]

\* reverse = serializers.BooleanField(default=False)
reverse_field(raw) ==
    IF raw = "absent" THEN Value(FALSE) ELSE Value(raw = "true")

\* UnixTimestampField.to_internal_value: ValueError and TypeError are caught
\* and turned into None; float("inf") makes fromtimestamp raise OverflowError.
to_internal_value(raw) ==
    CASE raw.k = "num" -> Value(FromTimestamp(raw))
      [] raw.k = "junk" -> Value(None)
      [] raw.k = "inf" -> Raises("OverflowError")

\* offset_datetime = UnixTimestampField(required=False)
offset_datetime_field(raw) ==
    IF raw.k = "absent" THEN Skip ELSE to_internal_value(raw)

\* offset_message_id = serializers.UUIDField(required=False)
offset_message_id_field(raw) ==
    CASE raw.k = "absent" -> Skip
      [] raw.k = "junk" -> Invalid
      [] raw.k = "uuid" -> Value(ParseUUID(raw))

DefaultPageSize(feed) ==
    IF feed = "chat" THEN CHAT_DEFAULT_PAGE_SIZE ELSE MESSAGE_DEFAULT_PAGE_SIZE
MaxPageSize(feed) ==
    IF feed = "chat" THEN CHAT_MAX_PAGE_SIZE ELSE MESSAGE_MAX_PAGE_SIZE

\* limit = serializers.IntegerField(default=..., max_value=..., min_value=1)
limit_field(feed, raw) ==
    CASE raw.k = "absent" -> Value(DefaultPageSize(feed))
      [] raw.k = "junk" -> Invalid
      [] raw.k = "int" ->
            IF raw.v >= LIMIT_MIN_VALUE /\ raw.v <= MaxPageSize(feed)
            THEN Value(raw.v) ELSE Invalid

\* MessageRelatedPaginationQueryParams.validate: TRUE when attrs pass.
validate(attrs) ==
    ~ \/ ("offset_datetime" \in DOMAIN attrs /\ "offset_message_id" \notin DOMAIN attrs)
      \/ ("offset_datetime" \notin DOMAIN attrs /\ "offset_message_id" \in DOMAIN attrs)

\* The declared fields in order, each with its outcome on the request.
FieldOutcomes(request) ==
    << <<"reverse", reverse_field(request.reverse)>>,
       <<"offset_datetime", offset_datetime_field(request.offset_datetime)>>,
       <<"offset_message_id", offset_message_id_field(request.offset_message_id)>>,
       <<"limit", limit_field(request.feed, request.limit)>> >>

RECURSIVE CollectAttrs(_, _)
CollectAttrs(outs, n) ==
    IF n = 0 THEN EmptyDict
    ELSE IF outs[n][2].out = "value"
         THEN SetItem(CollectAttrs(outs, n - 1), outs[n][1], outs[n][2].v)
         ELSE CollectAttrs(outs, n - 1)

\* Serializer.run_validation on the fields' outcomes: the exception raised
\* ("" when none) and the validated data.  An exception that is no
\* ValidationError escapes at once; field errors are raised once every field
\* has run; validate() runs last, on the collected attrs.
run_validation(outs, attrs) ==
    CASE \E n \in 1..Len(outs) : outs[n][2].out = "raise" ->
            [raised |-> "OverflowError", validated_data |-> EmptyDict]
      [] OTHER ->
            IF \/ \E n \in 1..Len(outs) : outs[n][2].out = "invalid"
               \/ ~validate(attrs)
            THEN [raised |-> "ValidationError", validated_data |-> EmptyDict]
            ELSE [raised |-> "", validated_data |-> attrs]

\* The attrs the serializer collects from the fields' outcomes.
to_attrs(outs) == CollectAttrs(outs, Len(outs))

\* serializer.is_valid(raise_exception=True) on request.query_params.
is_valid(request) ==
    run_validation(FieldOutcomes(request), to_attrs(FieldOutcomes(request)))

\* ----------------------------------------------------------------- queryset
\* queryset.annotate(_pagination_message_datetime=F(datetime lookup),
\*                   _pagination_message_uuid=F(uuid lookup))
annotate(queryset) ==
    {[sent_at |-> r.sent_at, message_id |-> r.message_id,
      _pagination_message_datetime |-> Datetime(r.sent_at),
      _pagination_message_uuid |-> r.message_id] : r \in queryset}

\* The lookups __gt and __lt.
Compare(comparison, a, b) == IF comparison = "gt" THEN a > b ELSE a < b

\* q1 with the id lookup made inclusive (__gte / __lte).
q1_inclusive(queryset, comparison, offset_datetime, offset_message_id) ==
    {r \in queryset : /\ r.sent_at = offset_datetime.us
                      /\ ~Compare(comparison, offset_message_id, r.message_id)}

\* q1 with the operands of the id lookup swapped.
q1_swapped(queryset, comparison, offset_datetime, offset_message_id) ==
    {r \in queryset : /\ r.sent_at = offset_datetime.us
                      /\ Compare(comparison, offset_message_id, r.message_id)}

\* q1 without the equality on the datetime lookup.
q1_any_datetime(queryset, comparison, offset_datetime, offset_message_id) ==
    {r \in queryset : Compare(comparison, r.message_id, offset_message_id)}

\* q1 with the id lookup as an inequality (every other id).
q1_other_ids(queryset, comparison, offset_datetime, offset_message_id) ==
    {r \in queryset : /\ r.sent_at = offset_datetime.us
                      /\ r.message_id # offset_message_id}

\* q1: same datetime, message id beyond the offset id.
q1(queryset, comparison, offset_datetime, offset_message_id) ==
    {r \in queryset : /\ r.sent_at = offset_datetime.us
                      /\ Compare(comparison, r.message_id, offset_message_id)}

\* q2 with the datetime lookup made inclusive (__gte / __lte).
q2_inclusive(queryset, comparison, offset_datetime) ==
    {r \in queryset : ~Compare(comparison, offset_datetime.us, r.sent_at)}

\* q2: datetime beyond the offset datetime.
q2(queryset, comparison, offset_datetime) ==
    {r \in queryset : Compare(comparison, r.sent_at, offset_datetime.us)}

\* The second branch alone.
union_all_second_only(a, b) == SetToBag(b)

\* a.union(b, all=True): UNION ALL keeps every row of both operands.
union_all(a, b) == SetToBag(a) (+) SetToBag(b)

\* The ordering with the uuid column ascending in both directions.
Before_ties_ascending(reverse, x, y) ==
    IF reverse
    THEN \/ x.sent_at < y.sent_at
         \/ x.sent_at = y.sent_at /\ x.message_id <= y.message_id
    ELSE \/ x.sent_at > y.sent_at
         \/ x.sent_at = y.sent_at /\ x.message_id <= y.message_id

\* The ordering with both branches of `if self.reverse` ascending.
Before_ignoring_reverse(reverse, x, y) ==
    \/ x.sent_at < y.sent_at
    \/ x.sent_at = y.sent_at /\ x.message_id <= y.message_id

\* ORDER BY (datetime, uuid) ascending when reverse, else both descending:
\* TRUE when row x may come before row y.
Before(reverse, x, y) ==
    IF reverse
    THEN \/ x.sent_at < y.sent_at
         \/ x.sent_at = y.sent_at /\ x.message_id <= y.message_id
    ELSE \/ x.sent_at > y.sent_at
         \/ x.sent_at = y.sent_at /\ x.message_id >= y.message_id

RECURSIVE order_by(_, _)
order_by(rows, reverse) ==
    IF rows = EmptyBag THEN <<>>
    ELSE LET S == BagToSet(rows)
             first == CHOOSE x \in S : \A y \in S : Before(reverse, x, y)
         IN  <<first>> \o order_by(rows (-) SetToBag({first}), reverse)

\* seq[:1]
Slice_single(seq, limit) == SubSeq(seq, 1, IF 1 < Len(seq) THEN 1 ELSE Len(seq))

\* seq[:limit + 1]
Slice_one_more(seq, limit) ==
    SubSeq(seq, 1, IF limit + 1 < Len(seq) THEN limit + 1 ELSE Len(seq))

\* seq[:limit]
Slice(seq, limit) == SubSeq(seq, 1, IF limit < Len(seq) THEN limit ELSE Len(seq))

\* --------------------------------------------------------------- paginator
\* The range filter on the offset datetime alone.
filter_by_offset_datetime_only(queryset, reverse, offset_datetime, offset_message_id) ==
    IF Truthy(offset_datetime)
    THEN SetToBag(q2(queryset, IF reverse THEN "gt" ELSE "lt", offset_datetime))
    ELSE SetToBag(queryset)

\* The range filter that needs the cursor's item in the queryset.
filter_by_offset_from_item(queryset, reverse, offset_datetime, offset_message_id) ==
    IF Truthy(offset_datetime)
    THEN IF \E r \in queryset : /\ r._pagination_message_datetime = offset_datetime
                                /\ r._pagination_message_uuid = offset_message_id
         THEN union_all(q1(queryset, IF reverse THEN "gt" ELSE "lt",
                           offset_datetime, offset_message_id),
                        q2(queryset, IF reverse THEN "gt" ELSE "lt", offset_datetime))
         ELSE EmptyBag
    ELSE SetToBag(queryset)

\* The range filter of paginate_queryset: q1 UNION ALL q2 when the offset
\* datetime is given (and true), the whole queryset otherwise.  A bag of rows.
filter_by_offset(queryset, reverse, offset_datetime, offset_message_id) ==
    IF Truthy(offset_datetime)
    THEN union_all(q1(queryset, IF reverse THEN "gt" ELSE "lt",
                      offset_datetime, offset_message_id),
                   q2(queryset, IF reverse THEN "gt" ELSE "lt", offset_datetime))
    ELSE SetToBag(queryset)

\* The edge items taken as for reverse false in both directions.
set_edge_items_ignoring_reverse(self, reverse, page) ==
    SetItem(SetItem(self, "older_edge_item", page[Len(page)]),
            "newer_edge_item", page[1])

\* The edge items paginate_queryset stores on the paginator for a page that
\* is not empty.
set_edge_items(self, reverse, page) ==
    IF reverse
    THEN SetItem(SetItem(self, "older_edge_item", page[1]),
                 "newer_edge_item", page[Len(page)])
    ELSE SetItem(SetItem(self, "older_edge_item", page[Len(page)]),
                 "newer_edge_item", page[1])

\* paginate_queryset storing edge items only for a page that fills the limit.
paginate_page_full_pages_only(self, reverse, filtered, limit, page) ==
    [raised |-> "",
     self |-> IF Len(page) < limit THEN self ELSE set_edge_items(self, reverse, page),
     page |-> page, eligible |-> filtered, limit |-> limit, queries |-> 1]

\* paginate_queryset from the evaluation of the ordered, limited query on.
\* The result names the exception raised ("" when none), the paginator
\* afterwards, the page, the rows the query ranged over, the limit it
\* carried and the number of queries run against the collection.
paginate_page(self, reverse, filtered, limit, page) ==
    [raised |-> "",
     self |-> IF Len(page) = 0 THEN self ELSE set_edge_items(self, reverse, page),
     page |-> page, eligible |-> filtered, limit |-> limit, queries |-> 1]

\* paginate_queryset from the ordering and the limit on.
paginate_filtered(self, reverse, filtered, limit) ==
    paginate_page(self, reverse, filtered, limit,
                  Slice(order_by(filtered, reverse), limit))

\* paginate_queryset once the query parameters are validated.
paginate_validated(self, queryset, qp) ==
    paginate_filtered(SetItem(self, "reverse", qp["reverse"]), qp["reverse"],
                      filter_by_offset(annotate(queryset), qp["reverse"],
                                       Get(qp, "offset_datetime"),
                                       Get(qp, "offset_message_id")),
                      qp["limit"])

\* paginate_queryset from the serializer's verdict on: a raised exception
\* leaves before any query is built.
paginate_checked(self, queryset, serializer) ==
    IF serializer.raised # ""
    THEN [raised |-> serializer.raised, self |-> self, page |-> <<>>,
          eligible |-> EmptyBag, limit |-> 0, queries |-> 0]
    ELSE paginate_validated(self, queryset, serializer.validated_data)

\* MessageRelatedPagination.paginate_queryset
paginate_queryset(self, queryset, request) ==
    paginate_checked(SetItem(self, "request", request), queryset, is_valid(request))

\* replace_query_param that drops the limit from the query string.
replace_query_param_dropping_limit(url, key, val) ==
    [url EXCEPT ![key] = val, !.limit = Absent]

\* rest_framework.utils.urls.replace_query_param / remove_query_param on the
\* URL's query string.
replace_query_param(url, key, val) == [url EXCEPT ![key] = val]
remove_query_param(url, key) ==
    [url EXCEPT ![key] = IF key = "reverse" THEN "absent" ELSE Absent]

\* get_older_link reading the newer edge item.
get_older_link_from_newer_edge(self) ==
    IF ~HasAttr(self, "newer_edge_item") THEN None
    ELSE LET url0 == self["request"]
             url1 == IF self["reverse"] THEN remove_query_param(url0, "reverse") ELSE url0
             url2 == replace_query_param(url1, "offset_datetime",
                        Timestamp(self["newer_edge_item"]._pagination_message_datetime))
         IN  replace_query_param(url2, "offset_message_id",
                        UUIDStr(self["newer_edge_item"]._pagination_message_uuid))

\* get_older_link falling back to the request's own URL when no edge item is
\* stored.
get_older_link_unguarded(self) ==
    IF ~HasAttr(self, "older_edge_item") THEN self["request"]
    ELSE LET url0 == self["request"]
             url1 == IF self["reverse"] THEN remove_query_param(url0, "reverse") ELSE url0
             url2 == replace_query_param(url1, "offset_datetime",
                        Timestamp(self["older_edge_item"]._pagination_message_datetime))
         IN  replace_query_param(url2, "offset_message_id",
                        UUIDStr(self["older_edge_item"]._pagination_message_uuid))

\* MessageRelatedPagination.get_older_link
get_older_link(self) ==
    IF ~HasAttr(self, "older_edge_item") THEN None
    ELSE LET url0 == self["request"]
             url1 == IF self["reverse"] THEN remove_query_param(url0, "reverse") ELSE url0
             url2 == replace_query_param(url1, "offset_datetime",
                        Timestamp(self["older_edge_item"]._pagination_message_datetime))
         IN  replace_query_param(url2, "offset_message_id",
                        UUIDStr(self["older_edge_item"]._pagination_message_uuid))

\* get_newer_link without the `if not self.reverse` replacement.
get_newer_link_keeping_reverse(self) ==
    IF ~HasAttr(self, "newer_edge_item") THEN None
    ELSE LET url0 == self["request"]
             url2 == replace_query_param(url0, "offset_datetime",
                        Timestamp(self["newer_edge_item"]._pagination_message_datetime))
         IN  replace_query_param(url2, "offset_message_id",
                        UUIDStr(self["newer_edge_item"]._pagination_message_uuid))

\* MessageRelatedPagination.get_newer_link
get_newer_link(self) ==
    IF ~HasAttr(self, "newer_edge_item") THEN None
    ELSE LET url0 == self["request"]
             url1 == IF ~self["reverse"]
                     THEN replace_query_param(url0, "reverse", "true") ELSE url0
             url2 == replace_query_param(url1, "offset_datetime",
                        Timestamp(self["newer_edge_item"]._pagination_message_datetime))
         IN  replace_query_param(url2, "offset_message_id",
                        UUIDStr(self["newer_edge_item"]._pagination_message_uuid))

\* MessageRelatedPagination.get_paginated_response
get_paginated_response(self, data) ==
    [status |-> 200, older |-> get_older_link(self), newer |-> get_newer_link(self),
     results |-> data]

\* The response to a request whose handler raised: 400 for a ValidationError,
\* 500 for any other exception; neither carries a page.
ErrorResponse(raised) ==
    [status |-> IF raised = "ValidationError" THEN 400 ELSE 500,
     older |-> None, newer |-> None, results |-> <<>>]

\* ------------------------------------------------------------------- state
VARIABLES
    db,          \* the rows of the feed's queryset
    request,     \* the query parameters of the last request
    via,         \* how the last request was formed: "init", "fresh", "older", "newer"
    call,        \* what paginate_queryset did for it: the exception raised, the
                 \* paginator afterwards (self), the page, the rows the ordered,
                 \* limited query ranged over (eligible, a bag), the limit it
                 \* carried and the number of queries run against the collection
    response,    \* the response to the last request
    prev,        \* the response before the last one
    origin,      \* the response before prev, and how the request between the
                 \* two was formed
    workers,     \* the handlers of two requests in flight at once: each one's
                 \* position, request, serializer verdict, paginate_queryset
                 \* outcome with its paginator, and response
    probe,       \* the last call of an operation outside pagination: its name,
                 \* its arguments and its result
    session      \* a traversal of a collection that changes under it: the rows
                 \* present since its first request (kept), the rows its pages
                 \* returned (a bag), the rows inserted behind the cursor at
                 \* the edge's timestamp (late), the number of writes so far,
                 \* whether the collection is as the last request read it,
                 \* the rows of its pages in the order returned (trail), the
                 \* number of its requests

vars == <<db, request, via, call, response, prev, origin, session, workers, probe>>

NoCall ==
    [raised |-> "", self |-> EmptyDict, page |-> <<>>, eligible |-> EmptyBag,
     limit |-> 0, queries |-> 0]
NoResponse == [status |-> 0, older |-> None, newer |-> None, results |-> <<>>]
NoOrigin == [via |-> "init", response |-> NoResponse]
Handlers == {"a", "b"}
NoSerializer == [raised |-> "", validated_data |-> EmptyDict]
Idle ==
    [pc |-> "idle", request |-> None, serializer |-> NoSerializer, call |-> NoCall,
     response |-> NoResponse]
NoProbe == [op |-> "none"]
NoSession ==
    [kept |-> {}, returned |-> EmptyBag, late |-> {}, writes |-> 0, clean |-> TRUE,
     trail |-> <<>>, requests |-> 0]

Init ==
    /\ db \in Collections
    /\ request = [feed |-> "message", reverse |-> "absent", offset_datetime |-> Absent,
                  offset_message_id |-> Absent, limit |-> Absent]
    /\ via = "init"
    /\ call = NoCall
    /\ response = NoResponse
    /\ prev = NoResponse
    /\ origin = NoOrigin
    /\ session = NoSession
    /\ workers = [h \in Handlers |-> Idle]
    /\ probe = NoProbe

\* The state in which no list request has been made and no collection is
\* paged: the start of the operations outside pagination.
InitApp ==
    /\ db = {}
    /\ request = [feed |-> "message", reverse |-> "absent", offset_datetime |-> Absent,
                  offset_message_id |-> Absent, limit |-> Absent]
    /\ via = "init"
    /\ call = NoCall
    /\ response = NoResponse
    /\ prev = NoResponse
    /\ origin = NoOrigin
    /\ session = NoSession
    /\ workers = [h \in Handlers |-> Idle]
    /\ probe = NoProbe

\* The variables of pagination.
paging == <<db, request, via, call, response, prev, origin, session, workers>>

\* The response of the list view from the outcome of paginate_queryset: the
\* paginated response on the page, or the error response.
Respond(r) ==
    IF r.raised = "" THEN get_paginated_response(r.self, r.page)
    ELSE ErrorResponse(r.raised)

\* The handler of a list request with its effect on the collection left as
\* it is: none, since it only reads.  The result is a mutant of Serve.
Serve_consuming(req, how) ==
    /\ request' = req
    /\ via' = how
    /\ call' = paginate_queryset(EmptyDict, db, req)
    /\ response' = Respond(call')
    /\ prev' = IF how = "fresh" THEN NoResponse ELSE response
    /\ origin' = IF how = "fresh" THEN NoOrigin ELSE [via |-> via, response |-> prev]
    /\ db' = {x \in db : \A n \in 1..Len(call'.page) :
                            call'.page[n].message_id # x.message_id}

\* ListModelMixin.list on a view with this pagination class: a paginator of
\* its own, paginate_queryset, then get_paginated_response on the page.  The
\* queryset is filtered, ordered, sliced and read; nothing is written.
Serve(req, how) ==
    /\ request' = req
    /\ via' = how
    /\ call' = paginate_queryset(EmptyDict, db, req)
    /\ response' = Respond(call')
    /\ prev' = IF how = "fresh" THEN NoResponse ELSE response
    /\ origin' = IF how = "fresh" THEN NoOrigin ELSE [via |-> via, response |-> prev]
    /\ UNCHANGED db

\* A list request on a collection nobody writes to.
List(req, how) == Serve(req, how) /\ UNCHANGED <<session, workers, probe>>

\* A client opens a session with a request of its own making.  The handler
\* keeps nothing between requests, so the state after such a request is the
\* same wherever in a session it is sent; sessions therefore start with it.
Request == via = "init" /\ \E req \in Requests : List(req, "fresh")

\* A client follows the older link of the last response.
FollowOlder == response.older # None /\ List(response.older, "older")

\* A client follows the newer link of the last response.
FollowNewer == response.newer # None /\ List(response.newer, "newer")

Next == Request \/ FollowOlder \/ FollowNewer

Spec == Init /\ [][Next]_vars

\* ------------------------------------------- a collection that is written
\* The requests that open a traversal from the newest item down: no cursor,
\* no reverse, a small limit (0 is refused).
Openings ==
    {[feed |-> "message", reverse |-> "absent", offset_datetime |-> Absent,
      offset_message_id |-> Absent, limit |-> RawInt(n)] : n \in 0..MaxLimitIn}

\* The rows of a page as rows of the collection.
PageRows(page) == {Row(page[n].sent_at, page[n].message_id) : n \in 1..Len(page)}

\* The traversal after a page: the first page fixes the rows to follow, every
\* page adds its rows to the rows returned.
AfterPage(s, how, queryset, page) ==
    [kept |-> IF how = "fresh" THEN queryset ELSE s.kept,
     returned |-> s.returned (+) SetToBag(PageRows(page)),
     late |-> s.late,
     writes |-> s.writes,
     clean |-> TRUE,
     trail |-> s.trail \o [n \in 1..Len(page) |-> Row(page[n].sent_at, page[n].message_id)],
     requests |-> s.requests + 1]

\* The traversal after a row is inserted: the row counts as late when no
\* page has returned it, it has the timestamp of the older edge of the last
\* page and it lies above that edge.
AfterInsert(s, row, edge) ==
    [kept |-> s.kept,
     returned |-> s.returned,
     late |-> IF /\ row.sent_at = edge.sent_at /\ row.message_id > edge.message_id
                 /\ ~BagIn(row, s.returned)
              THEN s.late \cup {row} ELSE s.late,
     writes |-> s.writes + 1,
     clean |-> FALSE,
     trail |-> s.trail,
     requests |-> s.requests]

\* The traversal after a row is deleted.
AfterDelete(s, row) ==
    [kept |-> s.kept \ {row},
     returned |-> s.returned,
     late |-> s.late \ {row},
     writes |-> s.writes + 1,
     clean |-> FALSE,
     trail |-> s.trail,
     requests |-> s.requests]

\* A list request of a traversal.
Fetch(req, how) ==
    /\ Serve(req, how)
    /\ session' = AfterPage(session, how, db, call'.page)
    /\ UNCHANGED <<workers, probe>>

\* A client opens a traversal.
Open == via = "init" /\ \E req \in Openings : Fetch(req, "fresh")

\* The client follows the older link of the last page.
ChainOlder == via # "init" /\ response.older # None /\ Fetch(response.older, "older")

\* Between two requests of the traversal a message is created: a row with an
\* unused id.
Insert ==
    /\ via # "init" /\ response.older # None
    /\ session.writes < MaxWrites
    /\ \E row \in Rows :
          /\ \A x \in db : x.message_id # row.message_id
          /\ db' = db \cup {row}
          /\ session' = AfterInsert(session, row, call.self["older_edge_item"])
    /\ UNCHANGED <<request, via, call, response, prev, origin, workers, probe>>

\* Between two requests of the traversal a message is destroyed.
Delete ==
    /\ via # "init" /\ response.older # None
    /\ session.writes < MaxWrites
    /\ \E row \in db :
          /\ db' = db \ {row}
          /\ session' = AfterDelete(session, row)
    /\ UNCHANGED <<request, via, call, response, prev, origin, workers, probe>>

NextDyn == Open \/ ChainOlder \/ Insert \/ Delete

SpecDyn == Init /\ [][NextDyn]_vars

\* ------------------------------------------------- two requests at once
\* The requests that arrive together: first pages of either direction.
Arrivals ==
    {[o EXCEPT !.reverse = r] : o \in Openings, r \in {"absent", "true"}}

\* One paginator for every handler.
Paginator_shared(w, h) == w["a"].call.self

\* The paginator of a handler: GenericAPIView.paginator makes an instance of
\* pagination_class for the view instance, and every request has its own
\* view instance.
Paginator(w, h) == w[h].call.self

\* paginate_queryset up to the validation of the query parameters.
Arrive(h) ==
    /\ workers[h].pc = "idle"
    /\ \E req \in Arrivals :
          workers' = [workers EXCEPT ![h] =
              [pc |-> "validated", request |-> req, serializer |-> is_valid(req),
               call |-> [NoCall EXCEPT !.self = SetItem(EmptyDict, "request", req)],
               response |-> NoResponse]]
    /\ UNCHANGED <<db, request, via, call, response, prev, origin, session, probe>>

\* paginate_queryset from there on: the filter, the query and the edge items
\* stored on the paginator.
Query(h) ==
    /\ workers[h].pc = "validated"
    /\ workers' = [workers EXCEPT
          ![h].call = paginate_checked(Paginator(workers, h), db, workers[h].serializer),
          ![h].pc = "paged"]
    /\ UNCHANGED <<db, request, via, call, response, prev, origin, session, probe>>

\* get_paginated_response: the links from what the paginator holds.
Links(h) ==
    /\ workers[h].pc = "paged"
    /\ workers' = [workers EXCEPT
          ![h].response = Respond([workers[h].call EXCEPT
                                      !.self = Paginator(workers, h)]),
          ![h].pc = "done"]
    /\ UNCHANGED <<db, request, via, call, response, prev, origin, session, probe>>

NextConc == \E h \in Handlers : Arrive(h) \/ Query(h) \/ Links(h)

SpecConc == Init /\ [][NextConc]_vars

\* ------------------------------------------------ a whole traversal
\* The first requests of a traversal over a collection nobody writes to:
\* no cursor, either direction, a limit the serializer accepts.
WalkOpenings == {o \in Arrivals : o.limit.v >= LIMIT_MIN_VALUE}

\* The client asks for the first page.
Start == via = "init" /\ \E req \in WalkOpenings : Fetch(req, "fresh")

\* The client of a descending traversal follows the older link.
WalkOlder ==
    /\ via # "init" /\ request.reverse # "true"
    /\ response.older # None
    /\ Fetch(response.older, "older")

\* The client of an ascending traversal follows the newer link.
WalkNewer ==
    /\ via # "init" /\ request.reverse = "true"
    /\ response.newer # None
    /\ Fetch(response.newer, "newer")

NextWalk == Start \/ WalkOlder \/ WalkNewer

\* A step of the traversal is possible: the first request, or a link of the
\* traversal's direction to follow.  This is ENABLED <<NextWalk>>_vars, as
\* every request of a traversal differs from the one before it.
CanWalk ==
    \/ via = "init"
    \/ via # "init" /\ request.reverse # "true" /\ response.older # None
    \/ via # "init" /\ request.reverse = "true" /\ response.newer # None

\* The client goes on as long as there is a link to follow: weak fairness of
\* NextWalk, WF_vars(NextWalk), with its ENABLED spelled out as CanWalk.
WalkFairness == []<>(~CanWalk) \/ []<><<NextWalk>>_vars

SpecWalk == Init /\ [][NextWalk]_vars /\ WalkFairness

\* ------------------------------------------------ one paginator, many calls
\* paginate_queryset and get_paginated_response called on the paginator the
\* call before left behind.
Again(req, how) ==
    /\ request' = req
    /\ via' = how
    /\ call' = paginate_queryset(call.self, db, req)
    /\ response' = Respond(call')
    /\ UNCHANGED <<db, prev, origin, session, workers, probe>>

\* The first call on the instance.
FirstCall == via = "init" /\ \E req \in WalkOpenings : Again(req, "fresh")

\* The next call on the instance, with the older or the newer link of the
\* response before as its request.
CallOlder == response.older # None /\ Again(response.older, "older")
CallNewer == response.newer # None /\ Again(response.newer, "newer")

NextReuse == FirstCall \/ CallOlder \/ CallNewer

SpecReuse == Init /\ [][NextReuse]_vars

\* --------------------------------------------------------------- chat feed
Chats == 1..MaxChat
Users == {"me", "other"}
NULL == [k |-> "NULL"]

\* The Message table: every message id is unused or belongs to one chat with
\* one sent_at.
MessageTables ==
    {{[chat |-> f[i][1], sent_at |-> f[i][2], message_id |-> i] : i \in {j \in Ids : f[j] # <<>>}} :
        f \in [Ids -> {<<>>} \cup (Chats \X Times)]}

\* The Membership table: the members of every chat.
MembershipTables == [Chats -> (SUBSET Users) \ {{}}]

\* ChatQuerySet.of_user: filter(members=user)
of_user(memberships, user) == {c \in Chats : user \in memberships[c]}

\* The LEFT OUTER JOIN from the chats to their messages that the window's
\* order_by brings about: one row per message, one NULL row for a chat
\* without messages.
left_outer_join(chats, messages) ==
    {[id |-> m.chat, message |-> m] : m \in {x \in messages : x.chat \in chats}}
        \cup {[id |-> c, message |-> NULL] : c \in {x \in chats : \A m \in messages : m.chat # x}}

\* RowNumber ordered by ('message__sent_at', 'message__message_id'), ascending.
RowNumber_ascending(row, rows) ==
    1 + Cardinality({r \in rows :
          /\ r.id = row.id /\ r.message # NULL /\ row.message # NULL
          /\ \/ r.message.sent_at < row.message.sent_at
             \/ /\ r.message.sent_at = row.message.sent_at
                /\ r.message.message_id < row.message.message_id})

\* Window(RowNumber(), partition_by='id',
\*        order_by=('-message__sent_at', '-message__message_id'))
RowNumber(row, rows) ==
    1 + Cardinality({r \in rows :
          /\ r.id = row.id /\ r.message # NULL /\ row.message # NULL
          /\ \/ r.message.sent_at > row.message.sent_at
             \/ /\ r.message.sent_at = row.message.sent_at
                /\ r.message.message_id > row.message.message_id})

\* The rows of the joined chats with r = 1, the message labelled last_message.
first_rows(rows) ==
    {[id |-> r.id, last_message |-> r.message] : r \in {x \in rows : RowNumber(x, rows) = 1}}

\* ChatQuerySet.annotate_last_message
annotate_last_message(chats, messages) == first_rows(left_outer_join(chats, messages))

\* ChatViewSet.get_queryset
get_queryset(memberships, messages, user) ==
    annotate_last_message(of_user(memberships, user), messages)

\* The chat list view builds its queryset for the user "me".  The call keeps
\* nothing, so one call from the start shows every outcome.
GetQueryset ==
    /\ probe = NoProbe
    /\ \E memberships \in MembershipTables, messages \in MessageTables :
          probe' = [op |-> "get_queryset", memberships |-> memberships,
                    messages |-> messages,
                    out |-> get_queryset(memberships, messages, "me")]
    /\ UNCHANGED paging

SpecFeed == InitApp /\ [][GetQueryset]_vars

\* ---------------------------------------------------------- unread messages
\* The uuid a membership starts with as last_seen_message_id.
ALL_ZERO_UUID == 0

\* The last-seen pairs a membership may hold.
LastSeen == [datetime : Times, id : Ids \cup {ALL_ZERO_UUID}]

\* ROW(a1, a2) >= (b1, b2) in SQL: the first column decides, the second on a
\* tie.
RowGte(a, b) == a[1] > b[1] \/ (a[1] = b[1] /\ a[2] >= b[2])

\* MessageQuerySet.unread(chat=chat, user=user), the membership of user in
\* chat holding the pair last_seen.
unread(messages, chat, last_seen) ==
    {m \in messages :
        /\ m.chat = chat
        /\ RowGte(<<m.sent_at, m.message_id>>, <<last_seen.datetime, last_seen.id>>)}

\* The unread messages of a chat are asked for.
Unread ==
    /\ probe = NoProbe
    /\ \E messages \in MessageTables, chat \in Chats, last_seen \in LastSeen :
          probe' = [op |-> "unread", messages |-> messages, chat |-> chat,
                    last_seen |-> last_seen,
                    out |-> unread(messages, chat, last_seen)]
    /\ UNCHANGED paging

SpecUnread == InitApp /\ [][Unread]_vars

\* ------------------------------------------------------------- permissions
\* The authenticated users, and the user columns, which are null once the
\* user is deleted (on_delete=SET_NULL).
People == [k : {"user"}, username : {"u1", "u2", "u3"}]
UserColumn == People \cup {None}

Methods == {"GET", "HEAD", "PUT", "PATCH", "DELETE", "POST"}
SAFE_METHODS == {"GET", "HEAD", "OPTIONS"}

\* The AdminRole rows of one group: the privileges every user holds there
\* (none for a user without a row).
DELETE_MESSAGE == "DM"
CHANGE_GROUP_INFO == "GI"

\* The service action managers.py gives the first message of a chat.
CREATE_CHAT == [k |-> "action", action |-> "CREATE_CHAT"]
AdminRoles == [People -> SUBSET {DELETE_MESSAGE, CHANGE_GROUP_INFO}]

\* AdminRole.objects.filter(user=user, privileges__contains=[privilege]).exists()
has_privilege(roles, user, privilege) == user \in People /\ privilege \in roles[user]

\* Chat instances: the type and, through group_chat_info, the creator.  The
\* model has no attribute `creator` on Chat itself.
ChatObjects ==
    [chat_type : {"MU", "GR"}, group_chat_info : [creator : UserColumn]]

\* Message instances: author and chat.  models.py declares no service_action
\* field while managers.py creates messages with one, so a message comes
\* without the attribute, with None (no service message) or with an action.
MessageObjects ==
    [user : UserColumn, chat : ChatObjects]
        \cup [user : UserColumn, chat : ChatObjects, service_action : {None, CREATE_CHAT}]

\* ChatPrivileges with the admins' update permission on every method.
ChatPrivileges_admin_any_method(method, user, chat, roles) ==
    IF method \in SAFE_METHODS THEN "allow"
    ELSE IF chat.chat_type = "MU" THEN "allow"
    ELSE IF chat.group_chat_info.creator = user THEN "allow"
    ELSE IF has_privilege(roles, user, CHANGE_GROUP_INFO) THEN "allow"
    ELSE "deny"

\* ChatPrivileges.has_object_permission
ChatPrivileges(method, user, chat, roles) ==
    IF method \in SAFE_METHODS THEN "allow"
    ELSE IF chat.chat_type = "MU" THEN "allow"
    ELSE IF chat.group_chat_info.creator = user THEN "allow"
    ELSE IF method \in {"PUT", "PATCH"} /\ has_privilege(roles, user, CHANGE_GROUP_INFO)
         THEN "allow"
    ELSE "deny"

\* CoMemberMessagePerms without the service message check.
CoMemberMessagePerms_any_message(method, user, message, roles) ==
    IF method \in SAFE_METHODS THEN "allow"
    ELSE IF message.user = user THEN "allow"
    ELSE "deny"

\* CoMemberMessagePerms.has_object_permission from `----- DELETE METHOD -----`
\* on, reached with a chat that has the attribute `creator`.
delete_by_non_author(user, message, roles) ==
    IF message.chat["creator"] = user THEN "allow"
    ELSE IF message.user = message.chat["creator"] THEN "deny"
    ELSE IF ~has_privilege(roles, user, DELETE_MESSAGE) THEN "deny"
    ELSE IF ~has_privilege(roles, message.user, DELETE_MESSAGE) THEN "allow"
    ELSE "deny"

\* CoMemberMessagePerms.has_object_permission; reading an attribute that the
\* instance lacks raises AttributeError.
CoMemberMessagePerms(method, user, message, roles) ==
    IF method \in SAFE_METHODS THEN "allow"
    ELSE IF ~HasAttr(message, "service_action") THEN "AttributeError"
    ELSE IF message.service_action # None THEN "deny"
    ELSE IF message.user = user THEN "allow"
    ELSE IF message.chat.chat_type = "MU" THEN "deny"
    ELSE IF method # "DELETE" THEN "deny"
    ELSE IF ~HasAttr(message.chat, "creator") THEN "AttributeError"
    ELSE delete_by_non_author(user, message, roles)

\* A request on one message is checked.
CheckMessage ==
    /\ probe = NoProbe
    /\ \E method \in Methods, user \in People, message \in MessageObjects,
          roles \in AdminRoles :
          probe' = [op |-> "message_perm", method |-> method, user |-> user,
                    message |-> message, roles |-> roles,
                    out |-> CoMemberMessagePerms(method, user, message, roles)]
    /\ UNCHANGED paging

\* A request on one chat is checked.
CheckChat ==
    /\ probe = NoProbe
    /\ \E method \in Methods, user \in People, chat \in ChatObjects,
          roles \in AdminRoles :
          probe' = [op |-> "chat_perm", method |-> method, user |-> user,
                    chat |-> chat, roles |-> roles,
                    out |-> ChatPrivileges(method, user, chat, roles)]
    /\ UNCHANGED paging

NextPerms == CheckMessage \/ CheckChat

SpecPerms == InitApp /\ [][NextPerms]_vars

\* ----------------------------------------------------------- chat creation
\* The tables the manager methods write.
EmptyTables == [chats |-> {}, infos |-> {}, memberships |-> {}, messages |-> {}]

\* create_mutual_chat(creator=, peer=) and create_group_chat(creator=, group_name=)
Calls ==
    [kind : {"mutual"}, creator : People, peer : People]
        \cup [kind : {"group"}, creator : People, group_name : {"name"}]

\* The statements of a manager method, in order.
statements(c) ==
    IF c.kind = "mutual" THEN <<"chat", "members", "message">>
    ELSE <<"info", "chat", "members", "message">>

\* GroupChatInfo.objects.create(group_name=...) inserts a row without the
\* chat its non-null one-to-one column needs: IntegrityError.
raises_always(statement) == statement = "info"

\* The users of chat.members.add(...)
members_of(c) == IF c.kind = "mutual" THEN {c.creator, c.peer} ELSE {c.creator}

\* What one statement writes.
execute(tables, c, chat, statement) ==
    CASE statement = "chat" ->
            [tables EXCEPT !.chats = @ \cup
                {[chat_id |-> chat,
                  chat_type |-> IF c.kind = "mutual" THEN "MU" ELSE "GR"]}]
      [] statement = "members" ->
            [tables EXCEPT !.memberships = @ \cup
                {[chat |-> chat, user |-> u] : u \in members_of(c)}]
      [] statement = "message" ->
            [tables EXCEPT !.messages = @ \cup
                {[chat |-> chat, service_action |-> CREATE_CHAT]}]
      [] OTHER -> tables

\* Leaving the atomic block with an exception keeps none of its writes.
rollback_nothing(saved, tables) == tables

\* transaction.atomic(durable=True) left with an exception: the tables are
\* those of the entry.
rollback(saved, tables) == saved

Creating == probe.op = "create" /\ probe.pc > 0
Tables == IF probe.op = "create" THEN probe.tables ELSE EmptyTables
FreeChats == Chats \ {r.chat_id : r \in Tables.chats}

\* A manager method is called and enters its atomic block.
Enter ==
    /\ probe = NoProbe \/ (probe.op = "create" /\ probe.pc = 0)
    /\ FreeChats # {}
    /\ \E c \in Calls :
          probe' = [op |-> "create", pc |-> 1, c |-> c,
                    chat |-> CHOOSE id \in FreeChats : \A o \in FreeChats : id <= o,
                    tables |-> Tables, saved |-> Tables,
                    out |-> "", done |-> 0]
    /\ UNCHANGED paging

\* The next statement of the method succeeds.
Statement ==
    /\ Creating
    /\ probe.pc <= Len(statements(probe.c))
    /\ ~raises_always(statements(probe.c)[probe.pc])
    /\ probe' = [probe EXCEPT
                    !.tables = execute(probe.tables, probe.c, probe.chat,
                                       statements(probe.c)[probe.pc]),
                    !.pc = probe.pc + 1]
    /\ UNCHANGED paging

\* The next statement (or the commit) raises: the method is left through
\* the atomic block.
Raise ==
    /\ Creating
    /\ probe' = [probe EXCEPT
                    !.tables = rollback(probe.saved, probe.tables),
                    !.pc = 0, !.out = "raised", !.done = probe.pc - 1]
    /\ UNCHANGED paging

\* The method returns the chat and the atomic block commits.
Exit ==
    /\ Creating
    /\ probe.pc = Len(statements(probe.c)) + 1
    /\ probe' = [probe EXCEPT !.pc = 0, !.out = "chat", !.done = probe.pc - 1]
    /\ UNCHANGED paging

NextCreate == Enter \/ Statement \/ Raise \/ Exit

SpecCreate == InitApp /\ [][NextCreate]_vars

\* ------------------------------------------------------------------ claims
\* The strict order of rows by (timestamp, id): timestamp first, id on a tie.
KeyLess(x, y) ==
    \/ x.sent_at < y.sent_at
    \/ x.sent_at = y.sent_at /\ x.message_id < y.message_id

\* The items of a response's page, and the keys of a set of rows.
Page(resp) == {resp.results[n] : n \in 1..Len(resp.results)}
Keys(rows) == {<<x.sent_at, x.message_id>> : x \in rows}

\* The last request was answered with a page.
Served == response.status = 200
\* The last request carried a well-formed cursor, and the key it denotes.
CursorGiven == request.offset_datetime.k = "num" /\ request.offset_message_id.k = "uuid"
Cursor ==
    [sent_at |-> request.offset_datetime.whole * USEC + request.offset_datetime.frac,
     message_id |-> request.offset_message_id.hex[1] * 16 + request.offset_message_id.hex[2]]
\* The last request carried no cursor parameter at all.
NoCursor == request.offset_datetime.k = "absent" /\ request.offset_message_id.k = "absent"
\* The direction the last request asked for.
Reverse == request.reverse = "true"
\* x lies beyond y in the direction of travel.
Beyond(x, y) == IF Reverse THEN KeyLess(y, x) ELSE KeyLess(x, y)

C2_CursorItemExcluded ==
    (Served /\ CursorGiven) =>
        \A x \in Page(response) :
            ~(x.sent_at = Cursor.sent_at /\ x.message_id = Cursor.message_id)

\* The cursor's item is in the collection, next to same-timestamp peers that
\* the page returns.
C2_Witness ==
    /\ Served /\ CursorGiven
    /\ <<Cursor.sent_at, Cursor.message_id>> \in Keys(db)
    /\ \E x \in Page(response) : x.sent_at = Cursor.sent_at

\* C3: with a cursor, the eligible items are exactly the items whose key is
\* strictly below the cursor key in lexicographic order (reverse false) or
\* strictly above it (reverse true).
C3_EligibleIsLexicographicRange ==
    (Served /\ CursorGiven) =>
        Keys(BagToSet(call.eligible)) = Keys({x \in db : Beyond(x, Cursor)})

\* A same-timestamp item beyond the cursor id is eligible, next to an item of
\* another timestamp.
C3_Witness ==
    /\ Served /\ CursorGiven
    /\ \E x, y \in BagToSet(call.eligible) :
          /\ x.sent_at = Cursor.sent_at
          /\ y.sent_at # Cursor.sent_at

\* C4: with a cursor, no item is in both branches q1 and q2: their UNION ALL
\* holds each item of the collection at most once.
C4_UnionAllHasNoDuplicate ==
    (Served /\ CursorGiven) => \A x \in BagToSet(call.eligible) : CopiesIn(x, call.eligible) = 1

\* Both branches contribute: the collection holds same-timestamp peers on both
\* sides of the cursor id and items of the other timestamps.
C4_Witness ==
    /\ Served /\ CursorGiven
    /\ \E x, y \in db :
          /\ x.sent_at = Cursor.sent_at /\ x.message_id # Cursor.message_id
          /\ y.sent_at # Cursor.sent_at
    /\ BagCardinality(call.eligible) >= 2

\* C5: the items of a page are strictly ordered by (timestamp, id): ascending
\* when reverse is true, descending when it is false.
C5_PageStrictlyOrdered ==
    Served =>
        \A n \in 1..(Len(response.results) - 1) :
            IF Reverse
            THEN KeyLess(response.results[n], response.results[n + 1])
            ELSE KeyLess(response.results[n + 1], response.results[n])

\* A page with two neighbours of equal timestamp.
C5_Witness ==
    /\ Served
    /\ \E n \in 1..(Len(response.results) - 1) :
          response.results[n].sent_at = response.results[n + 1].sent_at

\* C6: a page holds min(limit, number of eligible items) items, and no
\* eligible item left out lies nearer to the cursor than an item of the page.
C6_PageIsNearestLimitItems ==
    Served =>
        /\ Len(response.results) =
              (IF call.limit < BagCardinality(call.eligible)
               THEN call.limit ELSE BagCardinality(call.eligible))
        /\ \A x \in BagToSet(call.eligible) \ Page(response) :
              \A y \in Page(response) : Beyond(x, y)

\* A page cut by the limit: eligible items are left out.
C6_Witness ==
    /\ Served /\ CursorGiven
    /\ Len(response.results) = call.limit
    /\ BagCardinality(call.eligible) > call.limit

\* C7: without a cursor every item is eligible, and the page is the `limit`
\* newest items (reverse false) or the `limit` oldest items (reverse true).
C7_FirstPageIsUnfiltered ==
    (Served /\ NoCursor) =>
        /\ Keys(BagToSet(call.eligible)) = Keys(db)
        /\ Keys(Page(response)) =
              Keys({x \in db :
                      Cardinality({y \in db :
                          IF Reverse THEN KeyLess(y, x) ELSE KeyLess(x, y)}) < call.limit})

\* A cursor-less request on a collection larger than the limit.
C7_Witness ==
    /\ Served /\ NoCursor /\ ~Reverse
    /\ Cardinality(db) > call.limit

\* C8: a request that supplies exactly one of offset_datetime and
\* offset_message_id ends in a validation error, and runs no query.
C8_HalfCursorRejected ==
    ((request.offset_datetime.k = "absent") # (request.offset_message_id.k = "absent"))
        => (response.status = 400 /\ call.queries = 0)

\* C9: a request with a non-numeric offset_datetime and a valid
\* offset_message_id ends in a validation error and returns no page.
C9_MalformedTimestampRejected ==
    (request.offset_datetime.k = "junk" /\ request.offset_message_id.k = "uuid")
        => (response.status = 400 /\ response.results = <<>>)

\* C10: the limit of every executed query lies in [1, max page size]; it is
\* the requested limit when that is in range and the feed's default (20 for
\* messages, 40 for chats) when none is given; a requested limit below 1 or
\* above the maximum is rejected with a validation error, not clamped.
C10_LimitValidated ==
    /\ call.queries > 0 =>
          /\ call.limit >= 1 /\ call.limit <= MaxPageSize(request.feed)
          /\ request.limit.k = "int" => call.limit = request.limit.v
          /\ request.limit.k = "absent" =>
                call.limit = (IF request.feed = "message" THEN 20 ELSE 40)
    /\ (/\ request.limit.k = "int"
        /\ (request.limit.v < 1 \/ request.limit.v > MaxPageSize(request.feed)))
          => response.status = 400

\* The page of the last response is not empty.
NonEmpty == Served /\ Len(response.results) > 0
\* The edge items the paginator of the last request holds.
OlderEdge == call.self["older_edge_item"]
NewerEdge == call.self["newer_edge_item"]
\* The cursor key a link denotes once the next request parses it.
LinkCursor(link) ==
    [sent_at |-> to_internal_value(link.offset_datetime).v.us,
     message_id |-> ParseUUID(link.offset_message_id)]
\* The key of a row.
KeyOf(x) == [sent_at |-> x.sent_at, message_id |-> x.message_id]

\* C11: when the queried range holds no item, the results list is empty and
\* both the older and the newer link are null.
C11_EmptyRangeGivesNoLinks ==
    (Served /\ call.eligible = EmptyBag) =>
        /\ response.results = <<>>
        /\ response.older = None
        /\ response.newer = None

\* The filter yields nothing on a collection that holds items: the cursor
\* lies at the end of the feed in the direction of travel.
C11_Witness ==
    /\ Served /\ CursorGiven /\ db # {}
    /\ call.eligible = EmptyBag
    /\ response.results = <<>>

\* C12: for every non-empty page the older edge is the item of the page with
\* the smallest (timestamp, id) and the newer edge the item with the largest;
\* they are the first and the last result when reverse is true, the last and
\* the first when reverse is false.
C12_EdgesAreExtremes ==
    NonEmpty =>
        /\ OlderEdge \in Page(response) /\ NewerEdge \in Page(response)
        /\ \A x \in Page(response) :
              /\ x = OlderEdge \/ KeyLess(OlderEdge, x)
              /\ x = NewerEdge \/ KeyLess(x, NewerEdge)
        /\ OlderEdge = response.results[IF Reverse THEN 1 ELSE Len(response.results)]
        /\ NewerEdge = response.results[IF Reverse THEN Len(response.results) ELSE 1]

\* An ascending page of several items whose edges share a timestamp.
C12_Witness ==
    /\ NonEmpty /\ Reverse
    /\ Len(response.results) >= 2
    /\ OlderEdge.sent_at = NewerEdge.sent_at

\* C13: for a non-empty page of either direction, the older link asks for
\* reverse false with the cursor at the older edge's (timestamp, id), and the
\* newer link asks for reverse true with the cursor at the newer edge's.
C13_LinksEncodeEdges ==
    NonEmpty =>
        /\ reverse_field(response.older.reverse) = Value(FALSE)
        /\ LinkCursor(response.older) = KeyOf(OlderEdge)
        /\ reverse_field(response.newer.reverse) = Value(TRUE)
        /\ LinkCursor(response.newer) = KeyOf(NewerEdge)

\* A descending page of several items: the newer link has to turn the
\* direction around, and the two links carry different cursors.
C13_Witness ==
    /\ NonEmpty /\ ~Reverse
    /\ Len(response.results) >= 2
    /\ LinkCursor(response.older) # LinkCursor(response.newer)

\* C14: a non-empty page carries both links, also when no item exists beyond
\* the edge; a response reached through a link lacks them only when its page
\* is empty.
C14_NonEmptyPageHasBothLinks ==
    /\ NonEmpty => (response.older # None /\ response.newer # None)
    /\ (via \in {"older", "newer"} /\ Served
          /\ (response.older = None \/ response.newer = None))
            => response.results = <<>>

\* A page that holds the whole collection, shorter than its limit: nothing
\* lies beyond either edge, yet both links are there.
C14_Witness ==
    /\ NonEmpty /\ NoCursor
    /\ Len(response.results) < call.limit
    /\ Page(response) = annotate(db)
    /\ response.older # None /\ response.newer # None

\* C15: on an unchanging collection, when a page P holds exactly `limit`
\* items and the page Q behind P's older link is not empty, the page behind
\* Q's newer link holds exactly the items of P, in ascending order.
C15_OlderThenNewerRecoversPage ==
    (/\ via = "newer" /\ origin.via = "older"
     /\ Len(origin.response.results) = call.limit
     /\ Len(prev.results) > 0)
        => /\ Served
           /\ Page(response) = Page(origin.response)
           /\ Len(response.results) = Len(origin.response.results)
           /\ \A n \in 1..(Len(response.results) - 1) :
                 KeyLess(response.results[n], response.results[n + 1])

\* P is a descending page of several items with more items below it,
\* recovered in ascending order after the detour through Q.
C15_Witness ==
    /\ via = "newer" /\ origin.via = "older"
    /\ Len(origin.response.results) = call.limit
    /\ call.limit >= 2
    /\ Len(prev.results) > 0
    /\ Page(response) = Page(origin.response)
    /\ response.results # origin.response.results

\* The position of the traversal after the last page: the older edge of the
\* page, or the cursor the request came with when the page is empty.
Low == IF NonEmpty THEN KeyOf(OlderEdge) ELSE Cursor
\* The traversal has reached an empty page.
TraversalOver == via = "older" /\ Served /\ response.results = <<>>

C17_PageIgnoresCursorItem ==
    (via = "older" /\ Served /\ session.clean) =>
        /\ response.results = paginate_queryset(EmptyDict, db \ {Cursor}, request).page
        /\ (\A x \in db : x.message_id # Cursor.message_id) =>
              response.results = paginate_queryset(EmptyDict, db \cup {Cursor}, request).page

\* The edge item of a page was deleted before the older link was followed,
\* and the next page has items, one of them with the edge's timestamp.
C17_Witness ==
    /\ via = "older" /\ NonEmpty /\ session.clean
    /\ Cursor \notin db
    /\ BagIn(Cursor, session.returned)
    /\ \E x \in Page(response) : x.sent_at = Cursor.sent_at

\* C18: pages are not isolated: an item inserted between two pages with the
\* timestamp of the older edge and an id above the edge's is returned by no
\* later page of the traversal.
C18_LatePeerNeverReturned ==
    \A x \in session.late : ~BagIn(x, session.returned)

\* The traversal is over, and an item inserted during it at the timestamp of
\* an edge is in the collection and was returned by no page.
C18_Witness ==
    /\ TraversalOver /\ session.clean
    /\ \E x \in session.late : x \in db /\ ~BagIn(x, session.returned)

C21_OneRowPerChatWithNewestMessage ==
    probe.op = "get_queryset" =>
        /\ {r.id : r \in probe.out} = {c \in Chats : "me" \in probe.memberships[c]}
        /\ \A r, q \in probe.out : r.id = q.id => r = q
        /\ \A r \in probe.out :
              IF \E m \in probe.messages : m.chat = r.id
              THEN /\ r.last_message \in probe.messages
                   /\ r.last_message.chat = r.id
                   /\ \A m \in probe.messages :
                         (m.chat = r.id /\ m # r.last_message) => KeyLess(m, r.last_message)
              ELSE r.last_message = NULL

\* A chat of the user with two messages of one timestamp, next to a chat of
\* somebody else that has messages too.
C21_Witness ==
    /\ probe.op = "get_queryset"
    /\ \E r \in probe.out : \E m \in probe.messages :
          /\ m.chat = r.id /\ m # r.last_message
          /\ m.sent_at = r.last_message.sent_at
    /\ \E m \in probe.messages : "me" \notin probe.memberships[m.chat]

\* The traversal has come to a page without items and without links.
WalkOver ==
    /\ via # "init" /\ Served
    /\ response.results = <<>>
    /\ response.older = None /\ response.newer = None

C23_TraversalEnds ==
    /\ []((via = "older" /\ NonEmpty) => KeyLess(KeyOf(OlderEdge), Cursor))
    /\ <>(WalkOver /\ session.requests <= ((Cardinality(db) + call.limit - 1) \div call.limit) + 1)

\* A descending traversal that took exactly ceil(n / L) + 1 requests, the
\* last page with items being full.
C23_Witness ==
    /\ WalkOver /\ ~Reverse
    /\ Cardinality(db) >= 2 /\ call.limit >= 2
    /\ session.requests = ((Cardinality(db) + call.limit - 1) \div call.limit) + 1

\* C24: after any sequence of calls on one paginator instance the links of
\* the response come from the page of the last call: a page with items gives
\* links at its own edges, an empty page gives null links, whatever an
\* earlier call on the instance returned.
C24_LinksFromLastCall ==
    (via # "init" /\ Served) =>
        IF response.results = <<>>
        THEN response.older = None /\ response.newer = None
        ELSE /\ LinkCursor(response.older) =
                    KeyOf(response.results[IF Reverse THEN 1 ELSE Len(response.results)])
             /\ LinkCursor(response.newer) =
                    KeyOf(response.results[IF Reverse THEN Len(response.results) ELSE 1])

\* C25: the older and the newer link differ from the request of their page
\* only in reverse, offset_datetime and offset_message_id: the limit and the
\* rest of the URL are those of the request, so the page of a followed link
\* is cut at the limit of the page that carried the link.
C25_LinksKeepOtherParameters ==
    NonEmpty =>
        /\ \A link \in {response.older, response.newer} :
              /\ link.limit = request.limit
              /\ link.feed = request.feed
              /\ limit_field(link.feed, link.limit) = Value(call.limit)
        /\ via \in {"older", "newer"} => Len(prev.results) <= call.limit

\* A page reached through a link, asked with an explicit limit that its
\* links carry on.
C25_Witness ==
    /\ NonEmpty /\ via = "older"
    /\ request.limit = RawInt(MaxLimitIn)
    /\ response.older.limit = RawInt(MaxLimitIn)
    /\ Len(prev.results) = call.limit

\* C26: unread returns exactly the messages of the chat whose sent_at is
\* greater than the membership's last_seen_message_datetime, or equal to it
\* with a message_id greater than last_seen_message_id; the last-seen message
\* itself is not among them.
C26_UnreadIsStrictlyAfterLastSeen ==
    probe.op = "unread" =>
        probe.out =
            {m \in probe.messages :
                /\ m.chat = probe.chat
                /\ \/ m.sent_at > probe.last_seen.datetime
                   \/ /\ m.sent_at = probe.last_seen.datetime
                      /\ m.message_id > probe.last_seen.id}

\* The creator of the chat a checked message belongs to, and whether the
\* checked message is a message of a user (no service message).
Creator == probe.message.chat.group_chat_info.creator
NonService == HasAttr(probe.message, "service_action") => probe.message.service_action = None

\* C27: a DELETE of a non-service message in a group chat by a user who is
\* neither its author nor the group's creator is allowed exactly when the
\* user is an admin holding DELETE_MESSAGE and the author is neither the
\* creator nor an admin holding DELETE_MESSAGE; the creator may delete any
\* non-service message.
C27_GroupDeleteDecision ==
    (/\ probe.op = "message_perm" /\ probe.method = "DELETE"
     /\ NonService /\ probe.message.chat.chat_type = "GR"
     /\ probe.message.user # probe.user)
        => IF Creator = probe.user THEN probe.out = "allow"
           ELSE (probe.out = "allow") <=>
                    /\ has_privilege(probe.roles, probe.user, DELETE_MESSAGE)
                    /\ probe.message.user # Creator
                    /\ ~has_privilege(probe.roles, probe.message.user, DELETE_MESSAGE)

\* C28: a non-safe method other than DELETE on a message is never allowed to
\* a user who is not the author, in mutual and in group chats, and no
\* non-safe method is allowed on a service message.
C28_NoEditByOthersNoWriteOnService ==
    (probe.op = "message_perm" /\ probe.method \notin SAFE_METHODS) =>
        /\ (probe.method # "DELETE" /\ probe.message.user # probe.user)
              => probe.out # "allow"
        /\ (HasAttr(probe.message, "service_action") /\ probe.message.service_action # None)
              => probe.out # "allow"

\* The author of a service message in a group asks to delete it, and is
\* denied.
C28_Witness ==
    /\ probe.op = "message_perm" /\ probe.method = "DELETE"
    /\ HasAttr(probe.message, "service_action")
    /\ probe.message.service_action = CREATE_CHAT
    /\ probe.message.user = probe.user
    /\ probe.message.chat.chat_type = "GR"
    /\ probe.out = "deny"

\* C29: on a group chat DELETE is allowed to the creator alone; an admin
\* holding CHANGE_GROUP_INFO is allowed PUT and PATCH and never DELETE, a
\* member without the privilege is denied every non-safe method, and safe
\* methods are always allowed.
C29_GroupChatDecision ==
    (probe.op = "chat_perm" /\ probe.chat.chat_type = "GR") =>
        /\ probe.method \in SAFE_METHODS => probe.out = "allow"
        /\ probe.method = "DELETE" =>
              (probe.out = "allow" <=> probe.chat.group_chat_info.creator = probe.user)
        /\ (/\ probe.chat.group_chat_info.creator # probe.user
            /\ has_privilege(probe.roles, probe.user, CHANGE_GROUP_INFO))
              => /\ probe.method \in {"PUT", "PATCH"} => probe.out = "allow"
                 /\ probe.method = "DELETE" => probe.out = "deny"
        /\ (/\ probe.chat.group_chat_info.creator # probe.user
            /\ ~has_privilege(probe.roles, probe.user, CHANGE_GROUP_INFO)
            /\ probe.method \notin SAFE_METHODS)
              => probe.out = "deny"

\* An admin holding CHANGE_GROUP_INFO, not the creator, asks to delete the
\* group and is denied.
C29_Witness ==
    /\ probe.op = "chat_perm" /\ probe.chat.chat_type = "GR"
    /\ probe.method = "DELETE"
    /\ probe.chat.group_chat_info.creator # probe.user
    /\ has_privilege(probe.roles, probe.user, CHANGE_GROUP_INFO)
    /\ probe.out = "deny"

\* The rows of one chat in the tables.
ChatRows(t, id) ==
    [chats |-> {r \in t.chats : r.chat_id = id},
     memberships |-> {r \in t.memberships : r.chat = id},
     messages |-> {r \in t.messages : r.chat = id}]

\* C30: after create_mutual_chat or create_group_chat either the chat, its
\* membership rows and its CREATE_CHAT service message all exist or none of
\* them does, and a call that failed in any step left the tables as they
\* were before it.
C30_CreationIsAllOrNothing ==
    (probe.op = "create" /\ probe.pc = 0) =>
        /\ \A id \in Chats :
              LET rows == ChatRows(probe.tables, id) IN
              \/ rows.chats = {} /\ rows.memberships = {} /\ rows.messages = {}
              \/ /\ Cardinality(rows.chats) = 1
                 /\ rows.memberships # {}
                 /\ rows.messages = {[chat |-> id, service_action |-> CREATE_CHAT]}
        /\ probe.out = "raised" => probe.tables = probe.saved
        /\ probe.out = "chat" =>
              /\ ChatRows(probe.saved, probe.chat) = ChatRows(EmptyTables, probe.chat)
              /\ {r.user : r \in ChatRows(probe.tables, probe.chat).memberships}
                    = members_of(probe.c)

\* A call failed at the service message, after the chat and its membership
\* rows were written, and none of them is left.
C30_Witness ==
    /\ probe.op = "create" /\ probe.pc = 0
    /\ probe.out = "raised" /\ probe.done = 2 /\ probe.c.kind = "mutual"
    /\ ChatRows(probe.tables, probe.chat) = ChatRows(EmptyTables, probe.chat)

====
